---- MODULE Spec2Model ----
(***************************************************************************)
(* Model of finance_advisor_budgeting_tool_ITA.py: the in-memory ledger    *)
(* (accounts, cards, income, categories), its mutation handlers, and the   *)
(* JSON persistence layer (Storage.load / Storage.save, _serialize,        *)
(* _load_state, save_state).                                               *)
(*                                                                         *)
(* Python objects whose type the code does not force are kept as tagged    *)
(* values [t |-> type, v |-> value], the same shape as a parsed JSON       *)
(* value.  Amounts of money are integers, in cents.                        *)
(***************************************************************************)
EXTENDS Integers, Sequences, FiniteSets, TLC

VARIABLES accounts, cards, income, categories, last_saved_at,
          file, tmp, pc, faults, last

vars == <<accounts, cards, income, categories, last_saved_at,
          file, tmp, pc, faults, last>>

(***************************************************************************)
(* Bounds of the model.                                                    *)
(***************************************************************************)
\* accounts and cards the user may hold at once (Spec)
MaxAccounts == 3
MaxCards == 1
\* fixed expenses in the whole store (SpecCategories)
MaxExpenses == 1
\* fixed expenses in the whole store (SpecExpenses)
MaxListed == 2
\* how many entries of DEFAULT_CATEGORIES the model keeps
NumDefaults == 2
\* injected I/O failures and crashes in one behaviour (SpecFault only)
MaxFaults == 1

(***************************************************************************)
(* Python / JSON values.                                                   *)
(***************************************************************************)
None == [t |-> "null"]
Str(s) == [t |-> "str", v |-> s]
Num(n) == [t |-> "num", v |-> n]
Bool(b) == [t |-> "bool", v |-> b]
List(s) == [t |-> "arr", v |-> s]
Dict(f) == [t |-> "obj", v |-> f]

EmptyMap == [k \in {} |-> k]

IsDict(j) == j.t = "obj"
IsList(j) == j.t = "arr"
IsStr(j) == j.t = "str"

\* Python truth value of an object (`if not raw`, `and loaded_cats`)
Truthy(j) ==
    CASE j.t = "null" -> FALSE
      [] j.t = "bool" -> j.v
      [] j.t = "num" -> j.v # 0
      [] j.t = "str" -> j.v # ""
      [] j.t = "arr" -> Len(j.v) > 0
      [] j.t = "obj" -> DOMAIN j.v # {}

\* dict.get(key, default)
Get(d, k, default) == IF k \in DOMAIN d.v THEN d.v[k] ELSE default

Range(s) == {s[i] : i \in DOMAIN s}

(***************************************************************************)
(* Program constants.                                                      *)
(***************************************************************************)
APP_NAME == "finance_advisor_budgeting_tool_ITA"

AllDefaultCategories ==
    << "Affitto / Mutuo", "Utenze (Luce/Gas/Acqua)", "Internet / Telefonia",
       "Spesa alimentare", "Trasporti (Carburante/Mezzi)", "Assicurazioni",
       "Salute / Farmacia", "Bambini / Famiglia", "Casa / Manutenzione",
       "Abbonamenti ricorrenti", "Palestra / Fitness", "Ristoranti / Takeaway",
       "Intrattenimento", "Viaggi", "Risparmio / Investimenti",
       "Tasse / Imposte", "Regali / Donazioni" >>

\* the first NumDefaults entries of the program's list
DEFAULT_CATEGORIES == SubSeq(AllDefaultCategories, 1, NumDefaults)

(***************************************************************************)
(* Strings.  TLC cannot look inside a string, so str.lower, str.strip,     *)
(* " ".join(s.split()) and the order of strings are tables over the        *)
(* strings the model uses; each row is what Python computes.               *)
(***************************************************************************)
\* str.lower()
Lower(s) ==
    CASE s = "Affitto / Mutuo" -> "affitto / mutuo"
      [] s = "AFFITTO / MUTUO" -> "affitto / mutuo"
      [] s = "Utenze (Luce/Gas/Acqua)" -> "utenze (luce/gas/acqua)"
      [] s = "Internet / Telefonia" -> "internet / telefonia"
      [] s = "Spesa alimentare" -> "spesa alimentare"
      [] s = "Bollo auto" -> "bollo auto"
      [] s = "Bollo   auto" -> "bollo   auto"
      [] s = "Zeta" -> "zeta"
      [] OTHER -> s

\* the lower-case strings of the model in ascending code-point order
LowerOrder ==
    << "", "affitto / mutuo", "animali", "bollo   auto", "bollo auto",
       "internet / telefonia", "spesa alimentare", "utenze (luce/gas/acqua)",
       "zeta" >>

\* position of a lower-case key in LowerOrder: k1 < k2 in Python iff
\* KeyRank(k1) < KeyRank(k2)
KeyRank(k) == CHOOSE i \in DOMAIN LowerOrder : LowerOrder[i] = k

\* str.strip()
Strip(s) ==
    CASE s = " " -> ""
      [] s = " Bollo   auto " -> "Bollo   auto"
      [] OTHER -> s

\* " ".join(raw.split())
CollapseSpaces(s) ==
    CASE s = "Bollo   auto" -> "Bollo auto"
      [] OTHER -> s

\* _safe_float: "1.234,56" -> 1234.56 (here in cents), None when the cleaned
\* text is no number
_safe_float(s) ==
    CASE s = "1.000,00" -> Num(100000)
      [] s = " 12,99 " -> Num(1299)
      [] OTHER -> None

\* float(x) of a loaded value: numbers and bools convert, a numeral string
\* converts, anything else raises
CanFloat(j) ==
    \/ j.t \in {"num", "bool"}
    \/ j.t = "str" /\ j.v \in {"1000.0"}

PyFloat(j) ==
    CASE j.t = "num" -> j.v
      [] j.t = "bool" -> IF j.v THEN 100 ELSE 0
      [] j.t = "str" -> 100000

(***************************************************************************)
(* Categories.                                                             *)
(***************************************************************************)
\* {c.lower(): c for c in cats}[k]: the last entry with that key wins
LowerMapGet(cats, k) ==
    cats[CHOOSE i \in DOMAIN cats :
            /\ Lower(cats[i]) = k
            /\ \A j \in DOMAIN cats : Lower(cats[j]) = k => j <= i]

\* sorted(rest, key=lambda x: x.lower()): stable insertion of x into a
\* sorted list, after every entry whose key is not greater
InsertByLower(sorted, x) ==
    LET n == Cardinality({i \in DOMAIN sorted :
                            KeyRank(Lower(sorted[i])) <= KeyRank(Lower(x))})
    IN SubSeq(sorted, 1, n) \o <<x>> \o SubSeq(sorted, n + 1, Len(sorted))

\* mutant of SortedByLower: the rest is left in the order of the list
Unsorted(s) == s

RECURSIVE SortedByLower(_)
SortedByLower(s) ==
    IF s = <<>> THEN <<>>
    ELSE InsertByLower(SortedByLower(SubSeq(s, 1, Len(s) - 1)), s[Len(s)])

\* mutant of _normalize_categories_order: the rest leaves out the entries
\* equal to a base entry, not the entries equal to one up to case
_normalize_categories_order_exact(cats) ==
    LET keys == {Lower(c) : c \in Range(cats)}
        present == SelectSeq(DEFAULT_CATEGORIES, LAMBDA d : Lower(d) \in keys)
        base_exact == [i \in DOMAIN present |-> LowerMapGet(cats, Lower(present[i]))]
        rest == SelectSeq(cats, LAMBDA c : c \notin Range(base_exact))
    IN base_exact \o SortedByLower(rest)

_normalize_categories_order(cats) ==
    LET keys == {Lower(c) : c \in Range(cats)}
        present == SelectSeq(DEFAULT_CATEGORIES, LAMBDA d : Lower(d) \in keys)
        base_exact == [i \in DOMAIN present |-> LowerMapGet(cats, Lower(present[i]))]
        base_keys == {Lower(b) : b \in Range(base_exact)}
        rest == SelectSeq(cats, LAMBDA c : Lower(c) \notin base_keys)
    IN base_exact \o SortedByLower(rest)

(***************************************************************************)
(* Identifier allocation.                                                  *)
(***************************************************************************)
\* f"{i:04d}"
Pad4(i) ==
    IF i < 10 THEN "000" \o ToString(i)
    ELSE IF i < 100 THEN "00" \o ToString(i)
    ELSE IF i < 1000 THEN "0" \o ToString(i)
    ELSE ToString(i)

FirstCounter == 1

RECURSIVE ProbeId(_, _, _)
ProbeId(prefix, existing, i) ==
    LET candidate == prefix \o Pad4(i)
    IN IF candidate \notin existing THEN candidate
       ELSE ProbeId(prefix, existing, i + 1)

\* mutant of _make_id: the counter starts after the number of keys
_make_id_from_count(prefix, existing) ==
    ProbeId(prefix, existing, Cardinality(existing) + 1)

\* existing: the keys of the collection
_make_id(prefix, existing) == ProbeId(prefix, existing, FirstCounter)

(***************************************************************************)
(* The data model.                                                         *)
(***************************************************************************)
\* FixedExpense(name, category, amount, notes)
FixedExpense(name, category, amount, notes) ==
    [name |-> name, category |-> category, amount |-> amount, notes |-> notes]

\* BankAccount(bank_name, account_name, balance, fixed_expenses)
BankAccount(bank, name, bal, exps) ==
    [bank_name |-> bank, account_name |-> name, balance |-> bal,
     fixed_expenses |-> exps]

\* CreditCard(card_name, due_balance, fixed_expenses)
CreditCard(name, due, exps) ==
    [card_name |-> name, due_balance |-> due, fixed_expenses |-> exps]

\* Income(): salary_amount 0.0, salary_account_id None
DefaultIncome == [salary_amount |-> 0, salary_account_id |-> None]

\* the store __init__ builds before _load_state
EmptyStore ==
    [accounts |-> EmptyMap, cards |-> EmptyMap, income |-> DefaultIncome,
     categories |-> DEFAULT_CATEGORIES, last_saved_at |-> None]

Store ==
    [accounts |-> accounts, cards |-> cards, income |-> income,
     categories |-> categories, last_saved_at |-> last_saved_at]

\* the part of a store the round trip speaks of
Contents(st) ==
    [accounts |-> st.accounts, cards |-> st.cards, income |-> st.income,
     categories |-> st.categories]

(***************************************************************************)
(* Persistence: _serialize, Storage, _load_state.                          *)
(***************************************************************************)
\* asdict(e)
ExpenseDict(e) ==
    Dict([name |-> e.name, category |-> e.category, amount |-> e.amount,
          notes |-> e.notes])

ExpenseDicts(exps) == List([i \in DOMAIN exps |-> ExpenseDict(exps[i])])

SerializedCategories(cats) == List([i \in DOMAIN cats |-> Str(cats[i])])

_serialize(st) ==
    Dict([app |-> Str(APP_NAME),
          meta |-> Dict([last_saved_at |-> st.last_saved_at]),
          categories |-> SerializedCategories(st.categories),
          accounts |-> Dict([id \in DOMAIN st.accounts |->
              Dict([bank_name |-> st.accounts[id].bank_name,
                    account_name |-> st.accounts[id].account_name,
                    balance |-> Num(st.accounts[id].balance),
                    fixed_expenses |-> ExpenseDicts(st.accounts[id].fixed_expenses)])]),
          cards |-> Dict([id \in DOMAIN st.cards |->
              Dict([card_name |-> st.cards[id].card_name,
                    due_balance |-> Num(st.cards[id].due_balance),
                    fixed_expenses |-> ExpenseDicts(st.cards[id].fixed_expenses)])]),
          income |-> Dict([salary_amount |-> Num(st.income.salary_amount),
                           salary_account_id |-> st.income.salary_account_id])])

\* What a path of the file system holds: nothing, a complete JSON text (the
\* value it parses to), or a proper prefix of one (never parseable: the
\* closing brace of the document is missing).
Absent == [kind |-> "absent"]
Complete(doc) == [kind |-> "json", doc |-> doc]
Partial == [kind |-> "partial"]

\* Storage.load: {} when the path does not exist or json.load raises
StorageLoad(f) == IF f.kind = "json" THEN f.doc ELSE Dict(EmptyMap)

\* mutant of OpenTmp: the document is written straight to the final path
OpenFinal(fs) == [fs EXCEPT !.file = Partial]

\* Storage.save, step by step, on fs = [file, tmp]
OpenTmp(fs) == [fs EXCEPT !.tmp = Partial]
DumpTmp(fs, data) == [fs EXCEPT !.tmp = Complete(data)]
ReplaceFile(fs) == [file |-> fs.tmp, tmp |-> Absent]

\* The ways one call of Storage.save can end: it returns, it raises at one of
\* its steps, or the process dies at one of them.
SaveReturns == {"ok"}
SaveRaises == {"open_error", "write_error", "replace_error"}
SaveCrashes == {"crash_writing", "crash_before_replace", "crash_after_replace"}

StorageSave(fs, data, how) ==
    CASE how = "open_error" -> fs
      [] how \in {"write_error", "crash_writing"} -> OpenTmp(fs)
      [] how \in {"replace_error", "crash_before_replace"} ->
            DumpTmp(OpenTmp(fs), data)
      [] how \in {"ok", "crash_after_replace"} ->
            ReplaceFile(DumpTmp(OpenTmp(fs), data))

\* FixedExpense(**e): e must be a mapping with exactly the dataclass's fields,
\* notes optional
ExpenseArgsOk(e) ==
    /\ IsDict(e)
    /\ {"name", "category", "amount"} \subseteq DOMAIN e.v
    /\ DOMAIN e.v \subseteq {"name", "category", "amount", "notes"}

ExpenseFromDict(e) ==
    FixedExpense(e.v.name, e.v.category, e.v.amount, Get(e, "notes", Str("")))

\* [FixedExpense(**e) for e in obj.get("fixed_expenses", [])] raises nothing
ExpensesLoadable(fe) ==
    CASE fe.t = "arr" -> \A i \in DOMAIN fe.v : ExpenseArgsOk(fe.v[i])
      [] fe.t = "obj" -> DOMAIN fe.v = {}
      [] fe.t = "str" -> fe.v = ""
      [] OTHER -> FALSE

LoadedExpenses(fe) ==
    IF fe.t = "arr" THEN [i \in DOMAIN fe.v |-> ExpenseFromDict(fe.v[i])]
    ELSE <<>>

OwnerLoadable(obj, balance_key) ==
    /\ IsDict(obj)
    /\ ExpensesLoadable(Get(obj, "fixed_expenses", List(<<>>)))
    /\ CanFloat(Get(obj, balance_key, Num(0)))

OwnersLoadable(m, balance_key) ==
    /\ IsDict(m)
    /\ \A id \in DOMAIN m.v : OwnerLoadable(m.v[id], balance_key)

LoadedAccount(obj) ==
    BankAccount(Get(obj, "bank_name", Str("")), Get(obj, "account_name", Str("")),
                PyFloat(Get(obj, "balance", Num(0))),
                LoadedExpenses(Get(obj, "fixed_expenses", List(<<>>))))

LoadedCard(obj) ==
    CreditCard(Get(obj, "card_name", Str("")),
               PyFloat(Get(obj, "due_balance", Num(0))),
               LoadedExpenses(Get(obj, "fixed_expenses", List(<<>>))))

\* the category list _load_state starts from
LoadedCategoryObjects(raw) ==
    LET loaded_cats == Get(raw, "categories", None)
    IN IF IsList(loaded_cats) /\ Truthy(loaded_cats)
       THEN loaded_cats.v
       ELSE [i \in DOMAIN DEFAULT_CATEGORIES |-> Str(DEFAULT_CATEGORIES[i])]

\* for d in DEFAULT_CATEGORIES: if d.lower() not in lower: append(d)
RECURSIVE AppendMissingDefaults(_, _, _)
AppendMissingDefaults(cats, lower, i) ==
    IF i > Len(DEFAULT_CATEGORIES) THEN cats
    ELSE AppendMissingDefaults(
            IF Lower(DEFAULT_CATEGORIES[i]) \notin lower
            THEN Append(cats, DEFAULT_CATEGORIES[i]) ELSE cats,
            lower, i + 1)

MigratedCategories(cats) ==
    AppendMissingDefaults(cats, {Lower(c) : c \in Range(cats)}, 1)

LoadedCategories(raw) ==
    LET objs == LoadedCategoryObjects(raw)
        cats == [i \in DOMAIN objs |-> objs[i].v]
    IN _normalize_categories_order(MigratedCategories(cats))

\* some statement of the try block of _load_state raises
LoadRaises(raw) ==
    \/ ~IsDict(raw)
    \/ ~IsDict(Get(raw, "meta", Dict(EmptyMap)))
    \/ \E c \in Range(LoadedCategoryObjects(raw)) : ~IsStr(c)
    \/ ~OwnersLoadable(Get(raw, "accounts", Dict(EmptyMap)), "balance")
    \/ ~OwnersLoadable(Get(raw, "cards", Dict(EmptyMap)), "due_balance")
    \/ ~IsDict(Get(raw, "income", Dict(EmptyMap)))
    \/ ~CanFloat(Get(Get(raw, "income", Dict(EmptyMap)), "salary_amount", Num(0)))

\* the store the try block builds when nothing raises
Reconstructed(raw) ==
    LET accs == Get(raw, "accounts", Dict(EmptyMap)).v
        crds == Get(raw, "cards", Dict(EmptyMap)).v
        inc == Get(raw, "income", Dict(EmptyMap))
    IN [accounts |-> [id \in DOMAIN accs |-> LoadedAccount(accs[id])],
        cards |-> [id \in DOMAIN crds |-> LoadedCard(crds[id])],
        income |-> [salary_amount |-> PyFloat(Get(inc, "salary_amount", Num(0))),
                    salary_account_id |-> Get(inc, "salary_account_id", None)],
        categories |-> LoadedCategories(raw),
        last_saved_at |-> Get(Get(raw, "meta", Dict(EmptyMap)), "last_saved_at", None)]

\* mutant of _load_state: the except branch does not reset the categories
_load_state_keeps_categories(st, raw) ==
    IF ~Truthy(raw) THEN st
    ELSE IF LoadRaises(raw)
    THEN IF /\ IsDict(raw)
            /\ IsDict(Get(raw, "meta", Dict(EmptyMap)))
            /\ \A c \in Range(LoadedCategoryObjects(raw)) : IsStr(c)
         THEN [EmptyStore EXCEPT !.categories = LoadedCategories(raw)]
         ELSE EmptyStore
    ELSE Reconstructed(raw)

\* _load_state on the store st that __init__ built, raw = Storage.load()
_load_state(st, raw) ==
    IF ~Truthy(raw) THEN st
    ELSE IF LoadRaises(raw) THEN EmptyStore
    ELSE Reconstructed(raw)

(***************************************************************************)
(* What the user can type or select.                                       *)
(***************************************************************************)
BankInputs == {"", "Banca Alfa"}
AccountNameInputs == {" ", "Conto Base"}
CardNameInputs == {"", "Visa"}
ExpenseNameInputs == {"", "Affitto"}
AmountInputs == {"1.000,00", " 12,99 ", "abc"}
SalaryInputs == {"1.000,00", "abc"}
CategoryInputs == {"", " ", "affitto / mutuo", " Bollo   auto ", "animali"}
\* an identifier that is in no collection
StaleId == "ACC0099"
\* datetime.now().isoformat(timespec="seconds")
Clock == {"2026-01-01T10:00:00", "2026-01-01T10:00:01"}

\* dict[k] = v and del dict[k]
Put(m, k, v) == [x \in DOMAIN m \cup {k} |-> IF x = k THEN v ELSE m[x]]
Del(m, k) == [x \in DOMAIN m \ {k} |-> m[x]]

\* list.pop(idx), idx counted from 0
Pop(s, idx) == SubSeq(s, 1, idx) \o SubSeq(s, idx + 2, Len(s))

RECURSIVE SumLen(_, _)
SumLen(m, ids) ==
    IF ids = {} THEN 0
    ELSE LET id == CHOOSE x \in ids : TRUE
         IN Len(m[id].fixed_expenses) + SumLen(m, ids \ {id})

TotalExpenses == SumLen(accounts, DOMAIN accounts) + SumLen(cards, DOMAIN cards)

\* sum(e.amount for e in exps)
RECURSIVE SumAmounts(_)
SumAmounts(exps) ==
    IF exps = <<>> THEN 0 ELSE Head(exps).amount.v + SumAmounts(Tail(exps))

\* sum(f[k] for k in keys), f a function to numbers
RECURSIVE SumOver(_, _)
SumOver(f, keys) ==
    IF keys = {} THEN 0
    ELSE LET k == CHOOSE x \in keys : TRUE
         IN f[k] + SumOver(f, keys \ {k})

\* sum(f[k] for k in f)
SumValues(f) == SumOver(f, DOMAIN f)

\* mutant of account_monthly_expenses: only the first expense is counted
account_monthly_expenses_first(acc) ==
    IF acc.fixed_expenses = <<>> THEN 0 ELSE Head(acc.fixed_expenses).amount.v

account_monthly_expenses(acc) == SumAmounts(acc.fixed_expenses)

card_monthly_expenses(card) == SumAmounts(card.fixed_expenses)

total_monthly_expenses(accs, crds) ==
    SumValues([id \in DOMAIN accs |-> account_monthly_expenses(accs[id])])
    + SumValues([id \in DOMAIN crds |-> card_monthly_expenses(crds[id])])

account_effective_balance(acc) == acc.balance - account_monthly_expenses(acc)

\* mutant of TotalDebt: the cards' monthly expenses are counted as debt
TotalDebtWithExpenses(crds) ==
    SumValues([id \in DOMAIN crds |->
                  crds[id].due_balance + card_monthly_expenses(crds[id])])

\* debt of _refresh_dashboard
TotalDebt(crds) == SumValues([id \in DOMAIN crds |-> crds[id].due_balance])

\* the figures _refresh_dashboard computes, before they are formatted
Dashboard(accs, crds) ==
    LET total_monthly == total_monthly_expenses(accs, crds)
        cash_effective ==
            SumValues([id \in DOMAIN accs |-> account_effective_balance(accs[id])])
        debt == TotalDebt(crds)
    IN [total_monthly |-> total_monthly, cash_effective |-> cash_effective,
        debt |-> debt, net |-> cash_effective - debt]

\* mutant of UsesCategory: no expense is ever found to use the category
UsesCategoryNever(exps, cat) == FALSE

\* any(e.category == cat for e in exps)
UsesCategory(exps, cat) == \E i \in DOMAIN exps : exps[i].category = Str(cat)

\* mutant of UsedIn: the cards are not searched
UsedInAccountsOnly(accs, crds, cat) ==
    {id \in DOMAIN accs : UsesCategory(accs[id].fixed_expenses, cat)}

\* used_in of delete_category
UsedIn(accs, crds, cat) ==
    {id \in DOMAIN accs : UsesCategory(accs[id].fixed_expenses, cat)}
        \cup {id \in DOMAIN crds : UsesCategory(crds[id].fixed_expenses, cat)}

(***************************************************************************)
(* State.                                                                  *)
(*   accounts, cards, income, categories, last_saved_at: the fields of the *)
(*     application object;                                                 *)
(*   file, tmp: what DATA_FILE and DATA_FILE + ".tmp" hold;                *)
(*   pc: "running" while the process lives, "down" after it ended;         *)
(*   faults: failures injected so far;                                     *)
(*   last: the handler that ran last, the path it took (which return or    *)
(*     branch), its main argument and how its save ended.                  *)
(***************************************************************************)
Did(op, arg, path, save) == [op |-> op, arg |-> arg, path |-> path, save |-> save]

SetStore(st) ==
    /\ accounts' = st.accounts
    /\ cards' = st.cards
    /\ income' = st.income
    /\ categories' = st.categories
    /\ last_saved_at' = st.last_saved_at

\* the returns that show a dialog first (messagebox.showwarning, showinfo);
\* the others ("declined" after askyesno said no, "out_of_range") return
\* without one
ShowsMessage(path) ==
    path \in {"invalid", "no_selection", "no_expense", "empty", "duplicate",
              "not_found", "last", "in_use"}

\* a handler that returns before changing anything
Rejected(op, arg, path) ==
    /\ last' = Did(op, arg, path, "none")
    /\ UNCHANGED <<accounts, cards, income, categories, last_saved_at,
                   file, tmp, pc, faults>>

SaveResult(how) ==
    IF how \in SaveReturns THEN "ok"
    ELSE IF how \in SaveRaises THEN "error" ELSE "crash"

\* save_state on the store st, the timestamp taken before Storage.save runs
Stamped(st, now) == [st EXCEPT !.last_saved_at = Str(now)]

\* mutant of Finish: the handler changes the store and does not save
FinishWithoutSave(st, op, arg, path, sc, exits) ==
    /\ SetStore(st)
    /\ pc' = IF exits THEN "down" ELSE "running"
    /\ last' = Did(op, arg, path, "none")
    /\ UNCHANGED <<file, tmp, faults>>

\* mutant of Finish: a save that raises puts the store back as it was
FinishRollingBack(st, op, arg, path, sc, exits) ==
    \E how \in sc.hows, now \in sc.clock :
        LET st1 == Stamped(st, now)
            fs == StorageSave([file |-> file, tmp |-> tmp], _serialize(st1), how)
        IN /\ how \in SaveReturns \/ faults < MaxFaults
           /\ faults' = IF how \in SaveReturns THEN faults ELSE faults + 1
           /\ file' = fs.file
           /\ tmp' = fs.tmp
           /\ IF how \in SaveCrashes \/ exits
              THEN SetStore(EmptyStore) /\ pc' = "down"
              ELSE IF how \in SaveRaises
              THEN SetStore(Store) /\ pc' = "running"
              ELSE SetStore(st1) /\ pc' = "running"
           /\ last' = Did(op, arg, path, SaveResult(how))

\* The tail of every mutating handler: the store is now st, then save_state.
\* When the process dies inside Storage.save the memory is gone.
Finish(st, op, arg, path, sc, exits) ==
    \E how \in sc.hows, now \in sc.clock :
        LET st1 == Stamped(st, now)
            fs == StorageSave([file |-> file, tmp |-> tmp], _serialize(st1), how)
        IN /\ how \in SaveReturns \/ faults < MaxFaults
           /\ faults' = IF how \in SaveReturns THEN faults ELSE faults + 1
           /\ file' = fs.file
           /\ tmp' = fs.tmp
           /\ IF how \in SaveCrashes \/ exits
              THEN SetStore(EmptyStore) /\ pc' = "down"
              ELSE SetStore(st1) /\ pc' = "running"
           /\ last' = Did(op, arg, path, SaveResult(how))

(***************************************************************************)
(* Handlers.  sc: the scenario, that is the bounds of the specification   *)
(* (how many entities, which inputs, how Storage.save may end).            *)
(***************************************************************************)
\* mutant of add_account: an empty account name is let through
add_account_unnamed(sc) ==
    /\ pc = "running"
    /\ \E bank_in \in BankInputs, name_in \in AccountNameInputs,
          bal_in \in sc.amounts :
        LET bank == Strip(bank_in)
            name == Strip(name_in)
            bal == _safe_float(bal_in)
        IN IF bank = "" \/ bal = None
           THEN Rejected("add_account", "", "invalid")
           ELSE /\ Cardinality(DOMAIN accounts) < sc.max_accounts
                /\ LET acc_id == _make_id("ACC", DOMAIN accounts)
                   IN Finish([Store EXCEPT !.accounts =
                                 Put(accounts, acc_id,
                                     BankAccount(Str(bank), Str(name), bal.v, <<>>))],
                             "add_account", acc_id, "ok", sc, FALSE)

add_account(sc) ==
    /\ pc = "running"
    /\ \E bank_in \in BankInputs, name_in \in AccountNameInputs,
          bal_in \in sc.amounts :
        LET bank == Strip(bank_in)
            name == Strip(name_in)
            bal == _safe_float(bal_in)
        IN IF bank = "" \/ name = "" \/ bal = None
           THEN Rejected("add_account", "", "invalid")
           ELSE /\ Cardinality(DOMAIN accounts) < sc.max_accounts
                /\ LET acc_id == _make_id("ACC", DOMAIN accounts)
                   IN Finish([Store EXCEPT !.accounts =
                                 Put(accounts, acc_id,
                                     BankAccount(Str(bank), Str(name), bal.v, <<>>))],
                             "add_account", acc_id, "ok", sc, FALSE)

\* mutant of AccountDeleted: the salary reference is left as it was
AccountDeletedNoCascade(st, acc_id) ==
    [st EXCEPT !.accounts = Del(st.accounts, acc_id)]

\* the store after `del self.accounts[acc_id]` and the clearing of the
\* salary reference
AccountDeleted(st, acc_id) ==
    [st EXCEPT !.accounts = Del(st.accounts, acc_id),
               !.income.salary_account_id =
                   IF st.income.salary_account_id = Str(acc_id)
                   THEN None ELSE st.income.salary_account_id]

delete_selected_account(sc) ==
    /\ pc = "running"
    /\ \E acc_id \in DOMAIN accounts \cup {"", StaleId}, yes \in BOOLEAN :
        IF acc_id = "" \/ acc_id \notin DOMAIN accounts
        THEN Rejected("delete_selected_account", "", "no_selection")
        ELSE IF ~yes THEN Rejected("delete_selected_account", "", "declined")
        ELSE Finish(AccountDeleted(Store, acc_id), "delete_selected_account", acc_id,
                    IF income.salary_account_id = Str(acc_id)
                    THEN "ok_salary_cleared" ELSE "ok",
                    sc, FALSE)

\* mutant of update_account_balance: the account is rebuilt around the new
\* balance and loses its expenses
update_account_balance_rebuilt(sc) ==
    /\ pc = "running"
    /\ \E acc_id \in DOMAIN accounts \cup {"", StaleId}, bal_in \in sc.amounts :
        LET new_bal == _safe_float(bal_in)
        IN IF acc_id = "" \/ acc_id \notin DOMAIN accounts
           THEN Rejected("update_account_balance", "", "no_selection")
           ELSE IF new_bal = None
           THEN Rejected("update_account_balance", "", "invalid")
           ELSE Finish([Store EXCEPT !.accounts[acc_id] =
                           BankAccount(@.bank_name, @.account_name, new_bal.v, <<>>)],
                       "update_account_balance", acc_id, "ok", sc, FALSE)

update_account_balance(sc) ==
    /\ pc = "running"
    /\ \E acc_id \in DOMAIN accounts \cup {"", StaleId}, bal_in \in sc.amounts :
        LET new_bal == _safe_float(bal_in)
        IN IF acc_id = "" \/ acc_id \notin DOMAIN accounts
           THEN Rejected("update_account_balance", "", "no_selection")
           ELSE IF new_bal = None
           THEN Rejected("update_account_balance", "", "invalid")
           ELSE Finish([Store EXCEPT !.accounts[acc_id].balance = new_bal.v],
                       "update_account_balance", acc_id, "ok", sc, FALSE)

\* the entries of the read-only category combobox the user picks from: all
\* of them, or (sc.offer_all false) the first one only.  The combobox never
\* shows anything else: _refresh_category_sources, called after every change
\* of the list, puts the first entry in place of a value no longer listed.
OfferedCategories(sc) ==
    IF sc.offer_all THEN Range(categories) ELSE {categories[1]}

add_account_expense(sc) ==
    /\ pc = "running"
    /\ \E acc_id \in DOMAIN accounts \cup {"", StaleId},
          name_in \in ExpenseNameInputs, cat_in \in OfferedCategories(sc),
          amount_in \in sc.amounts :
        LET name == Strip(name_in)
            category == Strip(cat_in)
            amount == _safe_float(amount_in)
            notes == Strip("")
        IN IF acc_id = "" \/ acc_id \notin DOMAIN accounts
           THEN Rejected("add_account_expense", "", "no_selection")
           ELSE IF name = "" \/ category = "" \/ amount = None
           THEN Rejected("add_account_expense", "", "invalid")
           ELSE /\ TotalExpenses < sc.max_expenses
                /\ Finish([Store EXCEPT !.accounts[acc_id].fixed_expenses =
                              Append(@, FixedExpense(Str(name), Str(category),
                                                     amount, Str(notes)))],
                          "add_account_expense", acc_id, "ok", sc, FALSE)

\* sel: the selected row of the expense tree ("" when none), idx its number
delete_selected_account_expense(sc) ==
    /\ pc = "running"
    /\ \E acc_id \in DOMAIN accounts \cup {"", StaleId} :
        IF acc_id = "" \/ acc_id \notin DOMAIN accounts
        THEN Rejected("delete_selected_account_expense", "", "no_selection")
        ELSE \E sel \in {"", "EXP"}, yes \in BOOLEAN,
                idx \in 0..Len(accounts[acc_id].fixed_expenses) :
            LET exps == accounts[acc_id].fixed_expenses
            IN IF sel = ""
               THEN Rejected("delete_selected_account_expense", "", "no_expense")
               ELSE IF ~(0 <= idx /\ idx < Len(exps))
               THEN Rejected("delete_selected_account_expense", "", "out_of_range")
               ELSE IF ~yes
               THEN Rejected("delete_selected_account_expense", "", "declined")
               ELSE Finish([Store EXCEPT !.accounts[acc_id].fixed_expenses =
                               Pop(exps, idx)],
                           "delete_selected_account_expense", acc_id, "ok",
                           sc, FALSE)

add_card(sc) ==
    /\ pc = "running"
    /\ \E name_in \in CardNameInputs, due_in \in sc.amounts :
        LET name == Strip(name_in)
            due == _safe_float(due_in)
        IN IF name = "" \/ due = None
           THEN Rejected("add_card", "", "invalid")
           ELSE /\ Cardinality(DOMAIN cards) < sc.max_cards
                /\ LET card_id == _make_id("CRD", DOMAIN cards)
                   IN Finish([Store EXCEPT !.cards =
                                 Put(cards, card_id, CreditCard(Str(name), due.v, <<>>))],
                             "add_card", card_id, "ok", sc, FALSE)

\* mutant of delete_selected_card: the deletion also clears the salary
\* account, as the deletion of an account does
delete_selected_card_cascading(sc) ==
    /\ pc = "running"
    /\ \E card_id \in DOMAIN cards \cup {"", StaleId}, yes \in BOOLEAN :
        IF card_id = "" \/ card_id \notin DOMAIN cards
        THEN Rejected("delete_selected_card", "", "no_selection")
        ELSE IF ~yes THEN Rejected("delete_selected_card", "", "declined")
        ELSE Finish([Store EXCEPT !.cards = Del(cards, card_id),
                                  !.income.salary_account_id = None],
                    "delete_selected_card", card_id, "ok", sc, FALSE)

delete_selected_card(sc) ==
    /\ pc = "running"
    /\ \E card_id \in DOMAIN cards \cup {"", StaleId}, yes \in BOOLEAN :
        IF card_id = "" \/ card_id \notin DOMAIN cards
        THEN Rejected("delete_selected_card", "", "no_selection")
        ELSE IF ~yes THEN Rejected("delete_selected_card", "", "declined")
        ELSE Finish([Store EXCEPT !.cards = Del(cards, card_id)],
                    "delete_selected_card", card_id, "ok", sc, FALSE)

update_card_due(sc) ==
    /\ pc = "running"
    /\ \E card_id \in DOMAIN cards \cup {"", StaleId}, due_in \in sc.amounts :
        LET new_due == _safe_float(due_in)
        IN IF card_id = "" \/ card_id \notin DOMAIN cards
           THEN Rejected("update_card_due", "", "no_selection")
           ELSE IF new_due = None
           THEN Rejected("update_card_due", "", "invalid")
           ELSE Finish([Store EXCEPT !.cards[card_id].due_balance = new_due.v],
                       "update_card_due", card_id, "ok", sc, FALSE)

add_card_expense(sc) ==
    /\ pc = "running"
    /\ \E card_id \in DOMAIN cards \cup {"", StaleId},
          name_in \in ExpenseNameInputs, cat_in \in OfferedCategories(sc),
          amount_in \in sc.amounts :
        LET name == Strip(name_in)
            category == Strip(cat_in)
            amount == _safe_float(amount_in)
            notes == Strip("")
        IN IF card_id = "" \/ card_id \notin DOMAIN cards
           THEN Rejected("add_card_expense", "", "no_selection")
           ELSE IF name = "" \/ category = "" \/ amount = None
           THEN Rejected("add_card_expense", "", "invalid")
           ELSE /\ TotalExpenses < sc.max_expenses
                /\ Finish([Store EXCEPT !.cards[card_id].fixed_expenses =
                              Append(@, FixedExpense(Str(name), Str(category),
                                                     amount, Str(notes)))],
                          "add_card_expense", card_id, "ok", sc, FALSE)

delete_selected_card_expense(sc) ==
    /\ pc = "running"
    /\ \E card_id \in DOMAIN cards \cup {"", StaleId} :
        IF card_id = "" \/ card_id \notin DOMAIN cards
        THEN Rejected("delete_selected_card_expense", "", "no_selection")
        ELSE \E sel \in {"", "EXP"}, yes \in BOOLEAN,
                idx \in 0..Len(cards[card_id].fixed_expenses) :
            LET exps == cards[card_id].fixed_expenses
            IN IF sel = ""
               THEN Rejected("delete_selected_card_expense", "", "no_expense")
               ELSE IF ~(0 <= idx /\ idx < Len(exps))
               THEN Rejected("delete_selected_card_expense", "", "out_of_range")
               ELSE IF ~yes
               THEN Rejected("delete_selected_card_expense", "", "declined")
               ELSE Finish([Store EXCEPT !.cards[card_id].fixed_expenses =
                               Pop(exps, idx)],
                           "delete_selected_card_expense", card_id, "ok",
                           sc, FALSE)

\* mutant of SalaryAccountOf: the identifier is stored without looking it up
SalaryAccountUnchecked(selected, accs) ==
    IF selected = <<>> THEN None ELSE Str(Strip(selected[1]))

\* selected: the text of the salary combobox cut at " -- ":
\* <<>> for the empty text, else <<identifier, rest>>
SalaryAccountOf(selected, accs) ==
    IF selected = <<>> THEN None
    ELSE LET acc_id == Strip(selected[1])
         IN IF acc_id \notin DOMAIN accs THEN None ELSE Str(acc_id)

save_income(sc) ==
    /\ pc = "running"
    /\ \E sal_in \in sc.salaries,
          selected \in {<<>>} \cup
              {<<id, "Banca Alfa / Conto Base">> : id \in DOMAIN accounts \cup {StaleId}} :
        LET sal == _safe_float(sal_in)
        IN IF sal = None
           THEN Rejected("save_income", "", "invalid")
           ELSE Finish([Store EXCEPT !.income =
                           [salary_amount |-> sal.v,
                            salary_account_id |-> SalaryAccountOf(selected, accounts)]],
                       "save_income",
                       IF selected = <<>> THEN "" ELSE selected[1],
                       "ok", sc, FALSE)

\* the list after add_category accepted name
CategoryAdded(cats, name) == _normalize_categories_order(Append(cats, name))

add_category(sc) ==
    /\ pc = "running"
    /\ \E raw_in \in sc.categories :
        LET raw == Strip(raw_in)
            name == CollapseSpaces(raw)
        IN IF raw = ""
           THEN Rejected("add_category", "", "empty")
           ELSE IF Lower(name) \in {Lower(c) : c \in Range(categories)}
           THEN Rejected("add_category", "", "duplicate")
           ELSE Finish([Store EXCEPT !.categories = CategoryAdded(categories, name)],
                       "add_category", name, "ok", sc, FALSE)

\* the list after delete_category removed cat
CategoryDeleted(cats, cat) ==
    _normalize_categories_order(SelectSeq(cats, LAMBDA c : c # cat))

\* mutant of IsLastCategory: the comparison is off by one
IsLastCategoryOffByOne(cats) == Len(cats) <= 0

\* the guard that refuses the last remaining category
IsLastCategory(cats) == Len(cats) <= 1

delete_category(sc) ==
    /\ pc = "running"
    /\ \E category_name \in sc.categories \cup
              (IF sc.pick_listed THEN Range(categories) ELSE {}),
          yes \in BOOLEAN :
        LET cat == Strip(category_name)
        IN IF cat = ""
           THEN Rejected("delete_category", category_name, "empty")
           ELSE IF cat \notin Range(categories)
           THEN Rejected("delete_category", category_name, "not_found")
           ELSE IF IsLastCategory(categories)
           THEN Rejected("delete_category", category_name, "last")
           ELSE IF UsedIn(accounts, cards, cat) # {}
           THEN Rejected("delete_category", category_name, "in_use")
           ELSE IF ~yes
           THEN Rejected("delete_category", category_name, "declined")
           ELSE Finish([Store EXCEPT !.categories = CategoryDeleted(categories, cat)],
                       "delete_category", category_name, "ok", sc, FALSE)

\* the "Salva ora" button: save_state on the store as it is
save_state(sc) ==
    /\ pc = "running"
    /\ Finish(Store, "save_state", "", "ok", sc, FALSE)

\* on_close: save_state, then destroy
on_close(sc) ==
    /\ pc = "running"
    /\ Finish(Store, "on_close", "", "ok", sc, TRUE)

\* __init__: the empty store, then _load_state from DATA_FILE
Started(f) == _load_state(EmptyStore, StorageLoad(f))

StartupPath(f) ==
    IF ~Truthy(StorageLoad(f)) THEN "nothing_loaded"
    ELSE IF LoadRaises(StorageLoad(f)) THEN "load_error" ELSE "loaded"

startup ==
    /\ pc = "down"
    /\ SetStore(Started(file))
    /\ pc' = "running"
    /\ last' = Did("startup", "", StartupPath(file), "none")
    /\ UNCHANGED <<file, tmp, faults>>

(***************************************************************************)
(* Specifications.                                                         *)
(***************************************************************************)
\* the application started with no DATA_FILE
Init ==
    /\ file = Absent
    /\ tmp = Absent
    /\ accounts = Started(file).accounts
    /\ cards = Started(file).cards
    /\ income = Started(file).income
    /\ categories = Started(file).categories
    /\ last_saved_at = Started(file).last_saved_at
    /\ pc = "running"
    /\ faults = 0
    /\ last = Did("startup", "", StartupPath(file), "none")

Handlers(sc) ==
    \/ add_account(sc)
    \/ delete_selected_account(sc)
    \/ update_account_balance(sc)
    \/ add_account_expense(sc)
    \/ delete_selected_account_expense(sc)
    \/ add_card(sc)
    \/ delete_selected_card(sc)
    \/ update_card_due(sc)
    \/ add_card_expense(sc)
    \/ delete_selected_card_expense(sc)
    \/ save_income(sc)
    \/ add_category(sc)
    \/ delete_category(sc)
    \/ save_state(sc)
    \/ on_close(sc)

\* Scenario of Spec: accounts, cards and income; no expense is added and no
\* category is picked; the file system works (every Storage.save returns).
LedgerScenario ==
    [max_accounts |-> MaxAccounts, max_cards |-> MaxCards, max_expenses |-> 0,
     amounts |-> AmountInputs \ {" 12,99 "}, salaries |-> SalaryInputs,
     categories |-> {""}, pick_listed |-> FALSE, offer_all |-> TRUE,
     clock |-> {"2026-01-01T10:00:00"}, hows |-> SaveReturns]

Next == Handlers(LedgerScenario) \/ startup

Spec == Init /\ [][Next]_vars

\* Scenario of SpecCategories: the category list and the expenses that use
\* it, on at most one account and one card.
CategoryScenario ==
    [max_accounts |-> 1, max_cards |-> 1, max_expenses |-> MaxExpenses,
     amounts |-> AmountInputs \ {" 12,99 "}, salaries |-> {"abc"},
     categories |-> CategoryInputs \ {"animali"}, pick_listed |-> TRUE, offer_all |-> TRUE,
     clock |-> {"2026-01-01T10:00:00"}, hows |-> SaveReturns]

NextCategories == Handlers(CategoryScenario) \/ startup

SpecCategories == Init /\ [][NextCategories]_vars

\* Scenario of SpecFault: one account, one card, and every way a
\* Storage.save can end; at most MaxFaults saves fail or crash.
FaultScenario ==
    [max_accounts |-> 1, max_cards |-> 1, max_expenses |-> 0,
     amounts |-> AmountInputs \ {" 12,99 "}, salaries |-> {"1.000,00"},
     categories |-> {""}, pick_listed |-> FALSE, offer_all |-> TRUE,
     clock |-> Clock,
     hows |-> SaveReturns \cup SaveRaises \cup SaveCrashes]

NextFault == Handlers(FaultScenario) \/ startup

SpecFault == Init /\ [][NextFault]_vars

\* Scenario of SpecExpenses: the fixed expenses of accounts and cards and
\* the balances they are subtracted from; the category list is not edited.
ExpenseScenario ==
    [max_accounts |-> 2, max_cards |-> 1, max_expenses |-> MaxListed,
     amounts |-> AmountInputs, salaries |-> {"abc"},
     categories |-> {""}, pick_listed |-> FALSE, offer_all |-> FALSE,
     clock |-> {"2026-01-01T10:00:00"}, hows |-> SaveReturns]

NextExpenses == Handlers(ExpenseScenario) \/ startup

SpecExpenses == Init /\ [][NextExpenses]_vars

(***************************************************************************)
(* Documents DATA_FILE may hold when the application starts.               *)
(***************************************************************************)
DictWith(d, k, val) == Dict(Put(d.v, k, val))
DictWithout(d, k) == Dict(Del(d.v, k))

StrList(names) == List([i \in DOMAIN names |-> Str(names[i])])

DocExpense == ExpenseDict(FixedExpense(Str("Affitto"), Str("Zeta"), Num(35000), Str("")))

DocAccount ==
    Dict([bank_name |-> Str("Banca Alfa"), account_name |-> Str("Conto Base"),
          balance |-> Num(100000), fixed_expenses |-> List(<<DocExpense>>)])

DocCard ==
    Dict([card_name |-> Str("Visa"), due_balance |-> Num(12000),
          fixed_expenses |-> List(<<>>)])

DocIncome(acc) == Dict([salary_amount |-> Num(250000), salary_account_id |-> acc])

\* a document as the program writes it
Document(cats, accs, crds, inc) ==
    Dict([app |-> Str(APP_NAME),
          meta |-> Dict([last_saved_at |-> Str("2025-12-31T23:59:59")]),
          categories |-> cats, accounts |-> Dict(accs), cards |-> Dict(crds),
          income |-> inc])

GoodDocument ==
    Document(StrList(DEFAULT_CATEGORIES \o <<"Zeta">>),
             [ACC0001 |-> DocAccount], [CRD0001 |-> DocCard],
             DocIncome(Str("ACC0001")))

\* the category lists of the documents
DocumentCategoryLists ==
    { <<"Zeta">>,
      <<"Zeta", "zeta">>,
      <<"Zeta", "Zeta">>,
      <<"zeta", "animali", "Zeta">>,
      <<"affitto / mutuo">>,
      <<"AFFITTO / MUTUO", "Affitto / Mutuo">>,
      <<"Affitto / Mutuo", "AFFITTO / MUTUO", "Zeta">>,
      <<"Bollo auto", "animali">>,
      <<"Zeta", "Utenze (Luce/Gas/Acqua)", "animali", "Affitto / Mutuo">>,
      SubSeq(DEFAULT_CATEGORIES, 1, 1) }

CategoryDocuments ==
    {DictWith(GoodDocument, "categories", StrList(names)) :
        names \in DocumentCategoryLists}
    \cup {DictWith(GoodDocument, "categories", j) :
            j \in {List(<<>>), None, Str("Zeta"), List(<<Str("Zeta"), Num(1)>>),
                   Dict(EmptyMap)}}
    \cup {DictWithout(GoodDocument, "categories")}

\* documents the try block of _load_state cannot reconstruct
BrokenDocuments ==
    { List(<<Num(1)>>), Str("x"), Num(5),
      DictWith(GoodDocument, "meta", None),
      DictWith(GoodDocument, "accounts", List(<<DocAccount>>)),
      DictWith(GoodDocument, "accounts", Dict([ACC0001 |-> Str("x")])),
      DictWith(GoodDocument, "accounts",
               Dict([ACC0001 |-> DictWith(DocAccount, "balance", None)])),
      DictWith(GoodDocument, "accounts",
               Dict([ACC0001 |-> DictWith(DocAccount, "fixed_expenses", None)])),
      DictWith(GoodDocument, "cards",
               Dict([CRD0001 |-> DictWith(DocCard, "fixed_expenses",
                                          List(<<DictWithout(DocExpense, "name")>>))])),
      DictWith(GoodDocument, "income", List(<<>>)),
      DictWith(GoodDocument, "income", DictWith(DocIncome(None), "salary_amount", Str("abc"))) }

\* documents json.load returns as a false value: _load_state returns at once
FalsyDocuments == {Dict(EmptyMap), List(<<>>), None, Num(0), Str("")}

\* documents with absent or unusual fields that _load_state reconstructs
PartialDocuments ==
    { DictWithout(GoodDocument, "meta"),
      DictWithout(GoodDocument, "accounts"),
      DictWithout(GoodDocument, "cards"),
      DictWithout(GoodDocument, "income"),
      Dict([app |-> Str(APP_NAME)]),
      DictWith(GoodDocument, "accounts", Dict([ACC0001 |-> Dict(EmptyMap)])),
      DictWith(GoodDocument, "accounts",
               Dict([ACC0001 |-> DictWith(DocAccount, "balance", Str("1000.0"))])),
      DictWith(GoodDocument, "accounts",
               Dict([ACC0002 |-> DictWith(DocAccount, "fixed_expenses",
                                          List(<<DictWithout(DocExpense, "notes")>>))])),
      DictWith(GoodDocument, "income", DocIncome(Str("ACC0007"))),
      DictWith(GoodDocument, "income", Dict(EmptyMap)) }

InitialFiles ==
    {Absent, Partial}
    \cup {Complete(d) : d \in {GoodDocument} \cup CategoryDocuments
                                \cup BrokenDocuments \cup FalsyDocuments
                                \cup PartialDocuments}

\* the application started on any of the documents
InitDoc ==
    /\ file \in InitialFiles
    /\ tmp = Absent
    /\ accounts = Started(file).accounts
    /\ cards = Started(file).cards
    /\ income = Started(file).income
    /\ categories = Started(file).categories
    /\ last_saved_at = Started(file).last_saved_at
    /\ pc = "running"
    /\ faults = 0
    /\ last = Did("startup", "", StartupPath(file), "none")

\* Scenario of SpecDoc: the store comes from the document; the user manages
\* categories, deletes what the document brought, closes and restarts.
DocScenario ==
    [max_accounts |-> 0, max_cards |-> 0, max_expenses |-> 0,
     amounts |-> AmountInputs \ {"1.000,00"}, salaries |-> {"abc"},
     categories |-> {"", "animali"}, pick_listed |-> TRUE, offer_all |-> TRUE,
     clock |-> {"2026-01-01T10:00:00"}, hows |-> SaveReturns]

NextDoc == Handlers(DocScenario) \/ startup

SpecDoc == InitDoc /\ [][NextDoc]_vars

(***************************************************************************)
(* Properties.                                                             *)
(***************************************************************************)
SalaryTargetPresent ==
    \/ income.salary_account_id = None
    \/ /\ IsStr(income.salary_account_id)
       /\ income.salary_account_id.v \in DOMAIN accounts

\* C1: from the empty store, income.salary_account_id is none or the
\* identifier of an account that is present, and a confirmed deletion of the
\* salary target leaves it none in the same step.
C1_SalaryAccountNeverDangling ==
    /\ SalaryTargetPresent
    /\ (last.op = "delete_selected_account" /\ last.path = "ok_salary_cleared")
          => income.salary_account_id = None

C1_Witness ==
    /\ last.op = "delete_selected_account"
    /\ last.path = "ok_salary_cleared"
    /\ income.salary_amount # 0
    /\ income.salary_account_id = None
    /\ DOMAIN accounts # {}

\* what _load_state makes of the document save_state writes for the store
Reloaded(st) == _load_state(EmptyStore, StorageLoad(Complete(_serialize(st))))

\* C2: saving a store built by the handlers from the empty store and loading
\* it again gives the same accounts, cards, income and category list.
C2_RoundTrip == pc = "running" => Contents(Reloaded(Store)) = Contents(Store)

AllDefaultsListed ==
    \A i \in DOMAIN DEFAULT_CATEGORIES : DEFAULT_CATEGORIES[i] \in Range(categories)

\* the round trip of a store whose list still has (up to case) every default
C2_RoundTripWithDefaults ==
    (pc = "running" /\ \A i \in DOMAIN DEFAULT_CATEGORIES :
        Lower(DEFAULT_CATEGORIES[i]) \in {Lower(c) : c \in Range(categories)})
    => Contents(Reloaded(Store)) = Contents(Store)

\* C3: whatever way a Storage.save ends (return, exception or crash at any
\* of its steps), the final path holds a complete document: the one it held
\* before, or the new one.
C3_FinalPathCompleteOldOrNew ==
    [][ /\ file'.kind \in {"absent", "json"}
        /\ last'.save = "error" => file' = file
        /\ file' # file =>
              /\ file'.kind = "json"
              /\ last'.save \in {"ok", "crash"}
              /\ tmp' = Absent
              /\ pc' = "running" => file'.doc = _serialize(Store') ]_vars

C3_Witness ==
    /\ last.save = "crash"
    /\ pc = "down"
    /\ tmp = Partial
    /\ file.kind = "json"

SomeExpenseHas(name) ==
    \/ \E id \in DOMAIN accounts : \E i \in DOMAIN accounts[id].fixed_expenses :
          accounts[id].fixed_expenses[i].category = Str(name)
    \/ \E id \in DOMAIN cards : \E i \in DOMAIN cards[id].fixed_expenses :
          cards[id].fixed_expenses[i].category = Str(name)

\* C4: delete_category(name) leaves the list as it was when name is not in
\* it, when it is the only entry, or when an expense of an account or card
\* has that category; otherwise, once confirmed, the list is the old one
\* without name.
C4_DeleteCategoryContract ==
    [][ last'.op = "delete_category" =>
          LET name == last'.arg
          IN IF \/ name \notin Range(categories)
                \/ Len(categories) = 1
                \/ SomeExpenseHas(name)
             THEN categories' = categories /\ last'.path # "ok"
             ELSE \/ last'.path = "declined" /\ categories' = categories
                  \/ /\ last'.path = "ok"
                     /\ name \notin Range(categories')
                     /\ Range(categories') = Range(categories) \ {name} ]_vars

C4_Witness ==
    /\ last.op = "delete_category"
    /\ last.path = "in_use"
    /\ last.arg \in Range(categories)
    /\ \E id \in DOMAIN cards : UsesCategory(cards[id].fixed_expenses, last.arg)

\* C5: the category list is never empty.
C5_CategoriesNonEmpty == Len(categories) >= 1

C5_Witness ==
    /\ last.op = "delete_category"
    /\ last.path = "last"
    /\ Len(categories) = 1

\* C6: no two entries of the category list are equal up to case.
C6_CaseInsensitiveUnique ==
    \A i, j \in DOMAIN categories :
        i # j => Lower(categories[i]) # Lower(categories[j])

\* C7: every default category is in the category list.
C7_DefaultsPresent == AllDefaultsListed

DefaultKeys == {Lower(DEFAULT_CATEGORIES[i]) : i \in DOMAIN DEFAULT_CATEGORIES}

DefaultIndex(c) ==
    CHOOSE i \in DOMAIN DEFAULT_CATEGORIES : Lower(DEFAULT_CATEGORIES[i]) = Lower(c)

Numeral4 == <<"0001", "0002", "0003", "0004", "0005", "0006", "0007", "0008", "0009">>

\* C9: the identifier add_account and add_card get from _make_id is the
\* prefix and the 4-digit numeral of the smallest n >= 1 whose candidate is
\* not a key; it is never a key already present.
C9_SmallestFreeId ==
    [][ (last'.op \in {"add_account", "add_card"} /\ last'.path = "ok") =>
          LET prefix == IF last'.op = "add_account" THEN "ACC" ELSE "CRD"
              existing == IF last'.op = "add_account"
                          THEN DOMAIN accounts ELSE DOMAIN cards
              after == IF last'.op = "add_account"
                       THEN DOMAIN accounts' ELSE DOMAIN cards'
          IN /\ last'.arg \notin existing
             /\ after = existing \cup {last'.arg}
             /\ \E n \in 1..(Cardinality(existing) + 1) :
                   /\ last'.arg = prefix \o Numeral4[n]
                   /\ \A m \in 1..(n - 1) : (prefix \o Numeral4[m]) \in existing ]_vars

C9_Witness ==
    /\ last.op = "add_account"
    /\ last.path = "ok"
    /\ last.arg = "ACC0002"
    /\ DOMAIN accounts = {"ACC0001", "ACC0002", "ACC0003"}

\* C10: when DATA_FILE is absent, is no JSON text, or is a document the try
\* block cannot reconstruct, the application starts, with no accounts, no
\* cards, the default income and the default categories.
C10_BadDocumentStartsEmpty ==
    (/\ last.op = "startup"
     /\ \/ file.kind # "json"
        \/ file.doc \in BrokenDocuments
        \/ last.path = "load_error")
    => /\ pc = "running"
       /\ Contents(Store) = Contents(EmptyStore)

C10_Witness ==
    /\ last.op = "startup"
    /\ file.kind = "json"
    /\ file.doc \in BrokenDocuments
    /\ Get(file.doc, "categories", None) # None
    /\ categories = DEFAULT_CATEGORIES
    /\ accounts = EmptyMap

\* GoodDocument with one field of the documented shape left out
MissingFieldDocuments ==
    { DictWithout(GoodDocument, "meta"),
      DictWithout(GoodDocument, "categories"),
      DictWithout(GoodDocument, "accounts"),
      DictWithout(GoodDocument, "cards"),
      DictWithout(GoodDocument, "income"),
      DictWith(GoodDocument, "income", Dict(EmptyMap)),
      DictWith(GoodDocument, "accounts", Dict([ACC0001 |-> Dict(EmptyMap)])),
      DictWith(GoodDocument, "accounts",
               Dict([ACC0002 |-> DictWith(DocAccount, "fixed_expenses",
                                          List(<<DictWithout(DocExpense, "notes")>>))])),
      DictWith(GoodDocument, "cards",
               Dict([CRD0001 |-> DictWith(DocCard, "fixed_expenses",
                                          List(<<DictWithout(DocExpense, "name")>>))])) }

\* the identifiers a document has in one of its sections
DocumentKeys(doc, section) == DOMAIN Get(doc, section, Dict(EmptyMap)).v

\* how many expense entries the document gives to an account or card
DocumentExpenseCount(doc, section, id) ==
    Len(Get(doc.v[section].v[id], "fixed_expenses", List(<<>>)).v)

\* C11: when the document lacks a field of the documented shape (a section,
\* a field of an account or card, a field of an expense entry), _load_state
\* does not fail: every account, card and expense entry of the document is
\* reconstructed, the missing field taking a default.
C11_MissingFieldsDefault ==
    (/\ last.op = "startup"
     /\ file.kind = "json"
     /\ file.doc \in MissingFieldDocuments)
    => /\ last.path = "loaded"
       /\ DOMAIN accounts = DocumentKeys(file.doc, "accounts")
       /\ DOMAIN cards = DocumentKeys(file.doc, "cards")
       /\ \A id \in DOMAIN accounts :
             Len(accounts[id].fixed_expenses) =
                DocumentExpenseCount(file.doc, "accounts", id)
       /\ \A id \in DOMAIN cards :
             Len(cards[id].fixed_expenses) =
                DocumentExpenseCount(file.doc, "cards", id)

\* the same for the fields _load_state reads with a default: everything but
\* name, category and amount of an expense entry
C11_OptionalFieldsDefault ==
    (/\ last.op = "startup"
     /\ file.kind = "json"
     /\ file.doc \in MissingFieldDocuments \ BrokenDocuments)
    => /\ last.path = "loaded"
       /\ DOMAIN accounts = DocumentKeys(file.doc, "accounts")
       /\ DOMAIN cards = DocumentKeys(file.doc, "cards")

\* the strings of the document's category list
DocumentCategories(doc) ==
    LET objs == Get(doc, "categories", None).v
    IN [i \in DOMAIN objs |-> objs[i].v]

HasCategoryList(doc) ==
    /\ IsDict(doc)
    /\ IsList(Get(doc, "categories", None))
    /\ Get(doc, "categories", None).v # <<>>
    /\ \A c \in Range(Get(doc, "categories", None).v) : IsStr(c)

\* C12: after _load_state of a parseable document with a non-empty category
\* list, the category list has every default category, has every category
\* of the document's list, and has no category twice.
C12_LoadedCategoriesComplete ==
    (/\ last.op = "startup"
     /\ last.path = "loaded"
     /\ file.kind = "json"
     /\ HasCategoryList(file.doc))
    => /\ AllDefaultsListed
       /\ Range(DocumentCategories(file.doc)) \subseteq Range(categories)
       /\ \A i, j \in DOMAIN categories : i # j => categories[i] # categories[j]

\* what does hold of the loaded list: every default and every category of
\* the document is there up to case
C12_LoadedCategoriesUpToCase ==
    (/\ last.op = "startup"
     /\ last.path = "loaded"
     /\ file.kind = "json"
     /\ HasCategoryList(file.doc))
    => LET keys == {Lower(c) : c \in Range(categories)}
       IN /\ DefaultKeys \subseteq keys
          /\ \A c \in Range(DocumentCategories(file.doc)) : Lower(c) \in keys

\* accounts, cards, income and categories are left as they are
ContentsUnchanged == UNCHANGED <<accounts, cards, income, categories>>

\* C13: when Storage.save raises during save_state, the failure is reported
\* (last.save = "error" stands for the error dialog), the file is as it was,
\* and the store keeps the mutation of the handler that saved: the account or
\* card it added or deleted, the income it set; a plain save_state leaves the
\* store as it was.
C13_SaveFailureKeepsMutation ==
    [][ (last'.save = "error" /\ last'.op # "on_close") =>
          /\ pc' = "running"
          /\ file' = file
          /\ CASE last'.op = "save_state" -> ContentsUnchanged
               [] last'.op = "add_account" ->
                     /\ last'.arg \notin DOMAIN accounts
                     /\ DOMAIN accounts' = DOMAIN accounts \cup {last'.arg}
                     /\ accounts'[last'.arg].fixed_expenses = <<>>
                     /\ UNCHANGED <<cards, income, categories>>
               [] last'.op = "delete_selected_account" ->
                     /\ last'.arg \in DOMAIN accounts
                     /\ DOMAIN accounts' = DOMAIN accounts \ {last'.arg}
                     /\ income'.salary_account_id # Str(last'.arg)
                     /\ UNCHANGED <<cards, categories>>
               [] last'.op = "add_card" ->
                     /\ last'.arg \notin DOMAIN cards
                     /\ DOMAIN cards' = DOMAIN cards \cup {last'.arg}
                     /\ UNCHANGED <<accounts, income, categories>>
               [] last'.op = "delete_selected_card" ->
                     /\ last'.arg \in DOMAIN cards
                     /\ DOMAIN cards' = DOMAIN cards \ {last'.arg}
                     /\ UNCHANGED <<accounts, income, categories>>
               [] last'.op = "save_income" ->
                     /\ income'.salary_amount = 100000
                     /\ income'.salary_account_id =
                           IF last'.arg \in DOMAIN accounts
                           THEN Str(last'.arg) ELSE None
                     /\ UNCHANGED <<accounts, cards, categories>>
               [] OTHER -> UNCHANGED <<income, categories>> ]_vars

C13_Witness ==
    /\ last.op = "add_account"
    /\ last.save = "error"
    /\ pc = "running"
    /\ last.arg \in DOMAIN accounts
    /\ file = Absent

\* DATA_FILE holds the serialization of the store in memory
Persisted == file = Complete(_serialize(Store))

\* C14: with saves that succeed, every user action that changes accounts,
\* cards, income or categories ends with a save, after which DATA_FILE is the
\* serialization of the store; an action that does not save is rejected and
\* changes neither the store nor DATA_FILE, so that DATA_FILE stays the
\* serialization of the store from the first saved mutation on.
C14_SavedAfterEachMutation ==
    [][ (last'.op # "startup" /\ pc' = "running") =>
          /\ last'.save \in {"ok", "none"}
          /\ ~ContentsUnchanged => last'.save = "ok"
          /\ last'.save = "ok" => Persisted'
          /\ last'.save = "none" =>
                /\ ContentsUnchanged
                /\ UNCHANGED <<file, last_saved_at>> ]_vars

C14_Witness ==
    /\ last.op = "add_category"
    /\ last.path = "duplicate"
    /\ accounts # EmptyMap
    /\ \E id \in DOMAIN accounts : accounts[id].fixed_expenses # <<>>
    /\ Len(categories) > Len(DEFAULT_CATEGORIES)
    /\ Persisted

\* C15: add_account either is rejected and leaves accounts (and the rest of
\* the store) as they were, or inserts exactly one account under an
\* identifier that was free, with a non-empty bank and name, the balance
\* that was typed and no expenses, every other account staying as it was.
C15_AddAccountContract ==
    [][ last'.op = "add_account" =>
          \/ /\ last'.path = "invalid"
             /\ ContentsUnchanged
             /\ UNCHANGED <<file, last_saved_at>>
          \/ /\ last'.path = "ok"
             /\ last'.arg \notin DOMAIN accounts
             /\ DOMAIN accounts' = DOMAIN accounts \cup {last'.arg}
             /\ \A id \in DOMAIN accounts : accounts'[id] = accounts[id]
             /\ accounts'[last'.arg] =
                   [bank_name |-> Str("Banca Alfa"), account_name |-> Str("Conto Base"),
                    balance |-> 100000, fixed_expenses |-> <<>>]
             /\ UNCHANGED <<cards, income, categories>> ]_vars

C15_Witness ==
    /\ last.op = "add_account"
    /\ last.path = "ok"
    /\ Cardinality(DOMAIN accounts) >= 2
    /\ accounts[last.arg].fixed_expenses = <<>>

\* the rejections of add_account: some step is rejected from a state where
\* an account could have been added
C15_WitnessRejected ==
    /\ last.op = "add_account"
    /\ last.path = "invalid"
    /\ Cardinality(DOMAIN accounts) = 1

ExpenseRemovals == {"delete_selected_account_expense", "delete_selected_card_expense"}

\* the expense lists of the accounts or cards the operation op works on
ExpenseLists(op, accs, crds) ==
    LET owners == IF op = "delete_selected_account_expense" THEN accs ELSE crds
    IN [id \in DOMAIN owners |-> owners[id].fixed_expenses]

\* new is old without its element number idx (from 1), the others in order
RemovedAt(old, new, idx) ==
    /\ Len(new) = Len(old) - 1
    /\ \A i \in 1..Len(new) : new[i] = IF i < idx THEN old[i] ELSE old[i + 1]

\* a confirmed removal with an index in range: one element of one list goes
RemovesOne(op) ==
    LET old == ExpenseLists(op, accounts, cards)
        new == ExpenseLists(op, accounts', cards')
    IN /\ DOMAIN new = DOMAIN old
       /\ last'.arg \in DOMAIN old
       /\ \E idx \in 1..Len(old[last'.arg]) :
             RemovedAt(old[last'.arg], new[last'.arg], idx)
       /\ \A id \in DOMAIN old \ {last'.arg} : new[id] = old[id]

\* C16: removing an expense of an account or card with an index outside the
\* list is reported and leaves the list as it was; with an index in range
\* and the user's confirmation it removes that one element, the others
\* keeping their order.
C16_ExpenseRemovalContract ==
    [][ last'.op \in ExpenseRemovals =>
          IF last'.path = "ok"
          THEN RemovesOne(last'.op)
          ELSE /\ ContentsUnchanged
               /\ last'.path = "out_of_range" => ShowsMessage(last'.path) ]_vars

\* what the two handlers do guarantee: the same, without the report of an
\* index out of range
C16_ExpenseRemovalEffect ==
    [][ last'.op \in ExpenseRemovals =>
          IF last'.path = "ok"
          THEN RemovesOne(last'.op)
          ELSE ContentsUnchanged ]_vars

\* a removal from the middle of what was a list of two or more
C16_RemovalReached ==
    /\ last.op \in ExpenseRemovals
    /\ last.path = "ok"
    /\ \E id \in DOMAIN accounts :
          /\ Len(accounts[id].fixed_expenses) = 1
          /\ accounts[id].fixed_expenses[1].amount = Num(1299)

\* C17: save_income with an amount that does not parse is rejected and
\* leaves income as it was; with one that parses it replaces both fields,
\* the salary account being the selected identifier when that is a key of
\* accounts and none otherwise, without an error.
C17_SaveIncomeContract ==
    [][ last'.op = "save_income" =>
          \/ /\ last'.path = "invalid"
             /\ ContentsUnchanged
             /\ UNCHANGED <<file, last_saved_at>>
          \/ /\ last'.path = "ok"
             /\ last'.save = "ok"
             /\ income' = [salary_amount |-> 100000,
                           salary_account_id |->
                               IF last'.arg \in DOMAIN accounts
                               THEN Str(last'.arg) ELSE None]
             /\ UNCHANGED <<accounts, cards, categories>> ]_vars

\* an identifier that is no account is stored, and written, as none
C17_Witness ==
    /\ last.op = "save_income"
    /\ last.path = "ok"
    /\ last.arg = StaleId
    /\ DOMAIN accounts # {}
    /\ income = [salary_amount |-> 100000, salary_account_id |-> None]
    /\ file.kind = "json"
    /\ file.doc.v.income.v.salary_account_id = None

\* the amounts of a list of expenses, added from the last one down
AmountsUpTo(exps, n) ==
    LET RECURSIVE Upto(_)
        Upto(k) == IF k = 0 THEN 0 ELSE exps[k].amount.v + Upto(k - 1)
    IN Upto(n)

AmountsOf(exps) == AmountsUpTo(exps, Len(exps))

\* C18: in every state reached by adding and removing expenses and updating
\* balances, for every account, account_effective_balance is the balance
\* minus the sum of the amounts of its expenses and account_monthly_expenses
\* is that sum; an expense added lowers the effective balance by its amount,
\* an expense removed raises it by its amount.
C18_EffectiveBalance ==
    [][ \A id \in DOMAIN accounts' :
          LET a == accounts'[id]
          IN /\ account_monthly_expenses(a) = AmountsOf(a.fixed_expenses)
             /\ account_effective_balance(a) = a.balance - AmountsOf(a.fixed_expenses)
             /\ a.fixed_expenses = <<>> => account_effective_balance(a) = a.balance
             /\ (id \in DOMAIN accounts /\ a.balance = accounts[id].balance) =>
                   LET b == accounts[id]
                   IN /\ (/\ last'.op = "add_account_expense"
                          /\ last'.path = "ok" /\ last'.arg = id)
                         => account_effective_balance(a) =
                               account_effective_balance(b)
                               - a.fixed_expenses[Len(a.fixed_expenses)].amount.v
                      /\ \A idx \in DOMAIN b.fixed_expenses :
                            (/\ last'.op = "delete_selected_account_expense"
                             /\ last'.path = "ok" /\ last'.arg = id
                             /\ RemovedAt(b.fixed_expenses, a.fixed_expenses, idx)
                             /\ \A k \in DOMAIN b.fixed_expenses :
                                   b.fixed_expenses[k] = b.fixed_expenses[idx] => k = idx)
                            => account_effective_balance(a) =
                                  account_effective_balance(b)
                                  + b.fixed_expenses[idx].amount.v ]_vars

\* an account of balance 1000.00 with expenses of 12.99 and 1000.00
C18_Witness ==
    /\ last.op = "add_account_expense"
    /\ last.path = "ok"
    /\ accounts[last.arg].balance = 100000
    /\ Len(accounts[last.arg].fixed_expenses) = 2
    /\ accounts[last.arg].fixed_expenses[1].amount = Num(1299)
    /\ accounts[last.arg].fixed_expenses[2].amount = Num(100000)
    /\ account_monthly_expenses(accounts[last.arg]) = 101299
    /\ account_effective_balance(accounts[last.arg]) = -1299

\* the identifiers accounts and cards can have in SpecExpenses, in order
AccountIds == <<"ACC0001", "ACC0002", "ACC0003", "ACC0004">>
CardIds == <<"CRD0001", "CRD0002">>

\* the sum of part[id] over the identifiers of ids that part has, taken in
\* the order of ids
SumInOrder(ids, part) ==
    LET RECURSIVE Upto(_)
        Upto(n) ==
            IF n = 0 THEN 0
            ELSE (IF ids[n] \in DOMAIN part THEN part[ids[n]] ELSE 0) + Upto(n - 1)
    IN Upto(Len(ids))

\* the figures of the dashboard from the four sums they are made of
Figures(gross, acc_exp, card_exp, due) ==
    [total_monthly |-> acc_exp + card_exp,
     cash_effective |-> gross - acc_exp,
     debt |-> due,
     net |-> (gross - acc_exp) - due]

\* the figures of the dashboard, written out owner by owner
DashboardRight ==
    /\ DOMAIN accounts \subseteq Range(AccountIds)
    /\ DOMAIN cards \subseteq Range(CardIds)
    /\ Dashboard(accounts, cards) =
          Figures(SumInOrder(AccountIds, [id \in DOMAIN accounts |->
                                             accounts[id].balance]),
                  SumInOrder(AccountIds, [id \in DOMAIN accounts |->
                                             AmountsOf(accounts[id].fixed_expenses)]),
                  SumInOrder(CardIds, [id \in DOMAIN cards |->
                                          AmountsOf(cards[id].fixed_expenses)]),
                  SumInOrder(CardIds, [id \in DOMAIN cards |-> cards[id].due_balance]))
    /\ (accounts = EmptyMap /\ cards = EmptyMap) =>
          /\ Dashboard(accounts, cards).net = 0
          /\ Dashboard(accounts, cards).total_monthly = 0

\* the amount a confirmed card-expense step added (+) or removed (-)
CardExpenseDelta ==
    AmountsOf(cards'[last'.arg].fixed_expenses)
    - AmountsOf(cards[last'.arg].fixed_expenses)

\* C19: in every state, total debt is the sum of the cards' due_balance,
\* total monthly expenses the sum of all expenses of accounts and cards, net
\* the sum of the accounts' effective balances minus total debt; adding or
\* removing a card expense changes total monthly expenses by its amount and
\* leaves total debt and net as they were; with no accounts and no cards net
\* and total monthly expenses are 0.
\* (The figures are checked in the state with no accounts and no cards and
\* after every step that changes accounts or cards, which covers every
\* state.)
C19_DashboardFigures ==
    [][ /\ (accounts = EmptyMap /\ cards = EmptyMap) => DashboardRight
        /\ (accounts' # accounts \/ cards' # cards) => DashboardRight'
        /\ (/\ last'.op \in {"add_card_expense", "delete_selected_card_expense"}
            /\ last'.path = "ok")
           => LET before == Dashboard(accounts, cards)
                  after == Dashboard(accounts', cards')
              IN /\ CardExpenseDelta \in {100000, 1299, -100000, -1299}
                 /\ after.total_monthly = before.total_monthly + CardExpenseDelta
                 /\ after.debt = before.debt
                 /\ after.net = before.net ]_vars

\* a card of 1000.00 due with one expense of 12.99 in an otherwise empty
\* store
C19_Witness ==
    /\ last.op = "add_card_expense"
    /\ last.path = "ok"
    /\ accounts = EmptyMap
    /\ DOMAIN cards = {"CRD0001"}
    /\ cards["CRD0001"].due_balance = 100000
    /\ Len(cards["CRD0001"].fixed_expenses) = 1
    /\ cards["CRD0001"].fixed_expenses[1].amount = Num(1299)
    /\ Dashboard(accounts, cards) =
          [total_monthly |-> 1299, cash_effective |-> 0,
           debt |-> 100000, net |-> -100000]

\* m1 is m0 with field (balance or due_balance) of owner id set to some
\* typed amount, and nothing else changed
OnlyFieldSet(m0, m1, id, field) ==
    /\ id \in DOMAIN m0
    /\ DOMAIN m1 = DOMAIN m0
    /\ m1[id][field] \in {100000, 1299}
    /\ m1[id] = [m0[id] EXCEPT ![field] = m1[id][field]]
    /\ \A other \in DOMAIN m0 \ {id} : m1[other] = m0[other]

\* C20: update_account_balance on a present account with a value that
\* parses changes that account's balance and nothing else: its expenses,
\* the other accounts, the cards, income and categories stay; on an absent
\* account or a value that does not parse nothing changes.  update_card_due
\* does the same for the due_balance of a card.
C20_UpdateBalanceFrame ==
    [][ /\ last'.op = "update_account_balance" =>
              IF last'.path = "ok"
              THEN /\ OnlyFieldSet(accounts, accounts', last'.arg, "balance")
                   /\ UNCHANGED <<cards, income, categories>>
              ELSE /\ last'.path \in {"no_selection", "invalid"}
                   /\ ContentsUnchanged
                   /\ UNCHANGED <<file, last_saved_at>>
        /\ last'.op = "update_card_due" =>
              IF last'.path = "ok"
              THEN /\ OnlyFieldSet(cards, cards', last'.arg, "due_balance")
                   /\ UNCHANGED <<accounts, income, categories>>
              ELSE /\ last'.path \in {"no_selection", "invalid"}
                   /\ ContentsUnchanged
                   /\ UNCHANGED <<file, last_saved_at>> ]_vars

\* the balance of an account with an expense is set to 12.99 while another
\* account and a card are there
C20_Witness ==
    /\ last.op = "update_account_balance"
    /\ last.path = "ok"
    /\ accounts[last.arg].balance = 1299
    /\ accounts[last.arg].fixed_expenses # <<>>
    /\ \E other \in DOMAIN accounts \ {last.arg} : accounts[other].balance = 100000
    /\ cards # EmptyMap

\* the identifier the next add_account, add_card would assign
NextAccountId(accs) == _make_id("ACC", DOMAIN accs)
NextCardId(crds) == _make_id("CRD", DOMAIN crds)

CardSteps == {"add_card", "delete_selected_card", "update_card_due"}
AccountSteps == {"add_account", "delete_selected_account", "update_account_balance"}

\* C21: account and card identifiers come from independent namespaces: a
\* step that adds or deletes a card leaves the identifier the next
\* add_account assigns as it was, a step that adds or deletes an account
\* leaves the identifier the next add_card assigns as it was, the
\* identifiers assigned are ACCnnnn for accounts and CRDnnnn for cards, and
\* delete_selected_card leaves accounts and income unchanged.
C21_IndependentNamespaces ==
    [][ /\ last'.op \in CardSteps =>
              /\ NextAccountId(accounts') = NextAccountId(accounts)
              /\ UNCHANGED <<accounts, income>>
        /\ last'.op \in AccountSteps =>
              /\ NextCardId(cards') = NextCardId(cards)
              /\ UNCHANGED cards
        /\ (last'.op = "add_account" /\ last'.path = "ok") =>
              /\ last'.arg = NextAccountId(accounts)
              /\ last'.arg \in Range(AccountIds)
              /\ last'.arg \notin DOMAIN cards'
        /\ (last'.op = "add_card" /\ last'.path = "ok") =>
              /\ last'.arg = NextCardId(cards)
              /\ last'.arg \in Range(CardIds)
              /\ last'.arg \notin DOMAIN accounts' ]_vars

\* a card is deleted while ACC0002, the salary account, is the only account:
\* the next account is still to be ACC0001, the next card CRD0001 again
C21_Witness ==
    /\ last.op = "delete_selected_card"
    /\ last.path = "ok"
    /\ DOMAIN accounts = {"ACC0002"}
    /\ income.salary_account_id = Str("ACC0002")
    /\ cards = EmptyMap
    /\ NextAccountId(accounts) = "ACC0001"
    /\ NextCardId(cards) = "CRD0001"

\* the salary account of a store is none or one of the store's accounts
SalaryTargetIn(st) ==
    \/ st.income.salary_account_id = None
    \/ /\ IsStr(st.income.salary_account_id)
       /\ st.income.salary_account_id.v \in DOMAIN st.accounts

\* C22: after _load_state of a parseable document that it reconstructs,
\* income.salary_account_id is none or the identifier of an account
\* reconstructed from that document.
C22_LoadedSalaryAccountPresent ==
    (/\ last.op = "startup"
     /\ last.path = "loaded"
     /\ file.kind = "json")
    => /\ DOMAIN accounts = DocumentKeys(file.doc, "accounts")
       /\ SalaryTargetIn(Store)

\* what does hold: a document the application wrote itself, from the empty
\* store, is loaded with a salary account that is none or one of its accounts
C22_OwnDocumentSalaryAccountPresent ==
    pc = "running" => SalaryTargetIn(Reloaded(Store))

\* meta.last_saved_at of the document at the final path, none when there is
\* no document
RecordedStamp(f) ==
    IF f.kind = "json" /\ IsDict(f.doc)
    THEN Get(Get(f.doc, "meta", Dict(EmptyMap)), "last_saved_at", None)
    ELSE None

\* C23: last_saved_at changes only when a save succeeds: after a save_state
\* whose Storage.save raised, last_saved_at is what it was before, the
\* last_saved_at recorded in the document at the final path, or none when no
\* document was ever written.
C23_StampOnlyOnSuccess ==
    [][ (last'.save = "error" /\ pc' = "running") =>
          /\ last_saved_at' = last_saved_at
          /\ last_saved_at' = RecordedStamp(file') ]_vars

\* what does hold: after a save that succeeded last_saved_at is the one
\* recorded in the document, and a handler that does not save leaves it
C23_StampOfSuccessfulSave ==
    [][ /\ (last'.save = "ok" /\ pc' = "running") =>
              last_saved_at' = RecordedStamp(file')
        /\ (last'.save = "none" /\ last'.op # "startup") =>
              UNCHANGED last_saved_at ]_vars

\* every expense of the list has a category that is an entry of cats
CategoriesListed(exps, cats) ==
    \A i \in DOMAIN exps :
        /\ IsStr(exps[i].category)
        /\ exps[i].category.v \in Range(cats)

\* C24: from the empty store, after any sequence of add_category,
\* delete_category, add and remove expense, add and delete account and card,
\* the category of every expense of every account and card is an entry of
\* the category list.
C24_ExpenseCategoriesListed ==
    /\ \A id \in DOMAIN accounts :
          CategoriesListed(accounts[id].fixed_expenses, categories)
    /\ \A id \in DOMAIN cards :
          CategoriesListed(cards[id].fixed_expenses, categories)

\* an expense has the category the user added, and the other categories
\* have been deleted around it
C24_Witness ==
    /\ last.op = "delete_category"
    /\ last.path = "ok"
    /\ categories = <<"Bollo auto">>
    /\ \E id \in DOMAIN cards :
          /\ cards[id].fixed_expenses # <<>>
          /\ cards[id].fixed_expenses[1].category = Str("Bollo auto")

\* C25: loading is a fixed point after one pass: when _load_state has
\* reconstructed a document, saving the store and loading it again
\* reconstructs the same accounts, cards, income and category list.
C25_LoadFixedPoint ==
    (/\ last.op = "startup"
     /\ last.path = "loaded")
    => /\ StartupPath(Complete(_serialize(Store))) = "loaded"
       /\ Contents(Reloaded(Store)) = Contents(Store)
       /\ categories = _normalize_categories_order(MigratedCategories(categories))

\* the first load changed the list of the document, which named a default
\* twice in two spellings and lacked another, and took the balance of the
\* account from the document
C25_Witness ==
    /\ last.op = "startup"
    /\ last.path = "loaded"
    /\ file.kind = "json"
    /\ HasCategoryList(file.doc)
    /\ DocumentCategories(file.doc) = <<"AFFITTO / MUTUO", "Affitto / Mutuo">>
    /\ categories = DEFAULT_CATEGORIES
    /\ DOMAIN accounts = {"ACC0001"}
    /\ Contents(Reloaded(Store)) = Contents(Store)

====
